---- MODULE Spec2Model ----
(***************************************************************************)
(* Model of runtime_services.rs: the StandardRuntimeServices table handle  *)
(* (new / new_uninit / initialize / efi_runtime_services) and the variable *)
(* service wrappers of the RuntimeServices trait (get_variable,            *)
(* get_variable_size_and_attributes, set_variable, get_next_variable_name, *)
(* query_variable_info) and the time and wake-up wrappers, on top of a     *)
(* platform that is either the variable store the test mocks describe or a *)
(* misbehaving one that answers anything.                                  *)
(***************************************************************************)
EXTENDS Integers, Sequences, FiniteSets, TLC

\* ------------------------------------------------------------------ bounds
MaxSize == 2        \* largest value size, size hint and reported data size
MaxNameLen == 3     \* longest name, in 16-bit code units (terminator included)
MaxWalk == 3        \* most calls of one enumeration walk
ArrayLen == 2       \* N of the caller's type [u8; N]

\* --------------------------------------------------------------- constants
Null == 0           \* ptr::null_mut()
None == -1          \* size_hint: Option<usize> = None
FullTable == 1      \* a table whose variable-service slots are populated
ZeroTable == 2      \* a zeroed table: every slot is null
FillHint == 0       \* data.resize(size_hint, 0)
FillRetry == 10     \* data.resize(data_size, 10)
InvalidAttributes == 3  \* DUMMY_INVALID_ATTRIBUTES, the attributes the platform rejects

Tables == {FullTable, ZeroTable}
Guids == {0, 1}     \* 0 is Guid::from_bytes(&[0; 16])
Attrs == {1, 2}
QueryAttrs == {1, InvalidAttributes}   \* DUMMY_ATTRIBUTES and DUMMY_INVALID_ATTRIBUTES
Sizes == 0 .. MaxSize
Hints == {None} \cup Sizes
Types == {"Vec", "Array"}   \* T = Vec<u8> or T = [u8; ArrayLen]
Contexts == {1, 2}

Statuses == {"SUCCESS", "BUFFER_TOO_SMALL", "NOT_FOUND", "INVALID_PARAMETER",
             "WARN_UNKNOWN_GLYPH"}

\* efi::Status::is_error: the error class (high bit set); warnings are not errors
IsError(s) == s \notin {"SUCCESS", "WARN_UNKNOWN_GLYPH"}

\* ----------------------------------------------------------------- helpers
Ones(n) == [i \in 1 .. n |-> 1]
\* the value of n bytes 1, 2, .., n
Value(n) == [i \in 1 .. n |-> i]
Values == {Value(n) : n \in Sizes}

\* names: 1^k (no terminator) and 1^k 0 (terminated), k code units of text
Names == {Ones(k) : k \in 0 .. MaxNameLen - 1} \cup {Ones(k) \o <<0>> : k \in 0 .. MaxNameLen - 1}

\* the identifiers operations are called with: every name, in the namespace
\* its length picks, so that names of both namespaces occur
Idents == {[name |-> n, ns |-> Len(n) % 2] : n \in Names}

\* the (value, attributes) pairs set_variable is called with
Writes == {[value |-> Value(n), attrs |-> 1 + (n % 2)] : n \in Sizes}

\* some code unit of s is zero
HasNul(s) == \E i \in 1 .. Len(s) : s[i] = 0

\* name.iter().position(|&c| c == 0).is_some()
AlwaysTerminated(name) == TRUE
IsNullTerminated(name) == HasNul(name)

\* the C string a platform reads at a name pointer: up to and including the
\* first zero code unit
CStr(name) ==
    IF HasNul(name)
    THEN SubSeq(name, 1, CHOOSE i \in 1 .. Len(name) :
                            name[i] = 0 /\ \A j \in 1 .. i - 1 : name[j] # 0)
    ELSE name

\* Vec::resize(n, fill): truncates or extends with fill
Resize(v, n, fill) == [i \in 1 .. n |-> IF i <= Len(v) THEN v[i] ELSE fill]

\* dst[..src.len()].clone_from_slice(src) / ptr::copy_nonoverlapping(src, dst, src.len())
CopyPrefix(dst, src) == [i \in 1 .. Len(dst) |-> IF i <= Len(src) THEN src[i] ELSE dst[i]]

\* T::try_from(Vec<u8>): Vec<u8> takes any bytes, [u8; N] only N bytes
TryFromOk(T, bytes) == T = "Vec" \/ Len(bytes) = ArrayLen

VARIABLES
    debug,          \* cfg!(debug_assertions)
    ptr,            \* StandardRuntimeServices.efi_runtime_services
    behaved,        \* the platform is the variable store of the mocks
    store,          \* the platform's records, in platform order
    pc,             \* "idle", "get_variable", "get_next", "done"
    op,             \* the operation in progress and its arguments
    data,           \* get_variable: data
    first_attempt,  \* get_variable: first_attempt
    next_name,      \* get_next_variable_name: next_name
    next_namespace, \* get_next_variable_name: next_namespace
    next_name_size, \* get_next_variable_name_unchecked: next_name_size
    first_try,      \* get_next_variable_name_unchecked: first_try
    calls,          \* the platform calls the operation in progress has made
    result,         \* what the operation returned
    walk,           \* the results of the enumeration walk from the empty name so far
    ctx             \* execution contexts racing through initialize

vars == <<debug, ptr, behaved, store, pc, op, data, first_attempt, next_name,
          next_namespace, next_name_size, first_try, calls, result, walk, ctx>>

locals == <<data, first_attempt, next_name, next_namespace, next_name_size, first_try>>
platform == <<debug, behaved>>

\* ----------------------------------------------------------------- results
NoResult == [tag |-> "None", status |-> "", data |-> <<>>, attrs |-> 0, size |-> 0,
             name |-> <<>>, ns |-> 0, info |-> <<>>]
Err(s) == [NoResult EXCEPT !.tag = "Err", !.status = s]
Panic(msg) == [NoResult EXCEPT !.tag = "Panic", !.status = msg]
OkUnit == [NoResult EXCEPT !.tag = "Ok"]
OkData(d, a) == [NoResult EXCEPT !.tag = "Ok", !.data = d, !.attrs = a]
OkSize(n, a) == [NoResult EXCEPT !.tag = "Ok", !.size = n, !.attrs = a]
OkName(n, g) == [NoResult EXCEPT !.tag = "Ok", !.name = n, !.ns = g]
OkTable(t) == [NoResult EXCEPT !.tag = "Ok", !.size = t]
\* Ok(var_info), Ok((time, time_capabilities)), Ok((enabled, pending, time))
OkInfo(i) == [NoResult EXCEPT !.tag = "Ok", !.info = i]

NotInitialized == "Runtime services is not initialized."
AlreadyInitialized == "Runtime services is already initialized."

IdleOp == [kind |-> "none", name |-> <<>>, ns |-> 0, hint |-> None, T |-> "Vec",
           attrs |-> 0, value |-> <<>>, table |-> Null, enable |-> FALSE]

\* debug_assert!(false, msg); return fallback
DebugAssert(msg, fallback) == IF debug THEN Panic(msg) ELSE fallback

\* a table's slot holds a function pointer
SlotPopulated(t, slot) == t = FullTable

\* ---------------------------------------------------------------- platform
\* index of the record (name, ns) in the store, 0 when there is none
Lookup(name, ns) ==
    IF \E i \in 1 .. Len(store) : store[i].name = CStr(name) /\ store[i].ns = ns
    THEN CHOOSE i \in 1 .. Len(store) : store[i].name = CStr(name) /\ store[i].ns = ns
    ELSE 0

\* GetVariable of the platform: the answers it may give to one call
EfiGetVariable(name, ns, size, buf) ==
    IF behaved
    THEN LET i == Lookup(name, ns) IN
         IF i = 0
         THEN {[status |-> "NOT_FOUND", size |-> size, attrs |-> 0, buf |-> buf]}
         ELSE IF size < Len(store[i].data)
         THEN {[status |-> "BUFFER_TOO_SMALL", size |-> Len(store[i].data),
                attrs |-> store[i].attrs, buf |-> buf]}
         ELSE {[status |-> "SUCCESS", size |-> Len(store[i].data),
                attrs |-> store[i].attrs, buf |-> CopyPrefix(buf, store[i].data)]}
    ELSE {[status |-> s, size |-> n, attrs |-> a,
           buf |-> IF s = "SUCCESS" /\ n <= Len(buf) THEN CopyPrefix(buf, Value(n)) ELSE buf] :
             s \in Statuses, n \in Sizes, a \in Attrs}

\* SetVariable of the platform: the (status, store afterwards) it may give
EfiSetVariable(name, ns, attributes, bytes) ==
    IF behaved
    THEN IF CStr(name) = <<0>>
         THEN {[status |-> "INVALID_PARAMETER", store |-> store]}
         ELSE LET i == Lookup(name, ns)
                  r == [name |-> CStr(name), ns |-> ns, attrs |-> attributes, data |-> bytes]
              IN {[status |-> "SUCCESS",
                   store |-> IF i = 0 THEN Append(store, r) ELSE [store EXCEPT ![i] = r]]}
    ELSE {[status |-> s, store |-> store] : s \in Statuses}

\* GetNextVariableName of the platform: the answers it may give to one call
EfiGetNextVariableName(size, name, ns) ==
    IF behaved
    THEN LET i == IF CStr(name) = <<0>> THEN 0 ELSE Lookup(name, ns) IN
         IF ~HasNul(SubSeq(name, 1, size))
         THEN {[status |-> "INVALID_PARAMETER", size |-> size, name |-> name, ns |-> ns]}
         ELSE IF (CStr(name) # <<0>> /\ i = 0) \/ i = Len(store)
         THEN {[status |-> "NOT_FOUND", size |-> size, name |-> name, ns |-> ns]}
         ELSE IF size < Len(store[i + 1].name)
         THEN {[status |-> "BUFFER_TOO_SMALL", size |-> Len(store[i + 1].name),
                name |-> name, ns |-> ns]}
         ELSE {[status |-> "SUCCESS", size |-> Len(store[i + 1].name),
                name |-> CopyPrefix(name, store[i + 1].name), ns |-> store[i + 1].ns]}
    ELSE {[status |-> s, size |-> n,
           name |-> IF w THEN [j \in 1 .. Len(name) |-> 1] ELSE name,
           ns |-> IF w THEN 1 - ns ELSE ns] :
             s \in Statuses, n \in 0 .. MaxNameLen, w \in BOOLEAN}

\* QueryVariableInfo of the platform: the status and the three sizes it writes
EfiQueryVariableInfo(attributes) ==
    IF behaved
    THEN IF attributes = InvalidAttributes
         THEN {[status |-> "INVALID_PARAMETER", info |-> <<0, 0, 0>>]}
         ELSE {[status |-> "SUCCESS", info |-> <<3, 2, 1>>]}
    ELSE {[status |-> s, info |-> IF s = "SUCCESS" THEN <<3, 2, 1>> ELSE <<0, 0, 0>>] :
             s \in Statuses}

\* GetTime, SetTime, GetWakeupTime, SetWakeupTime of the platform: the status it
\* returns and what it writes through the out pointers (zeroes when nothing)
EfiTimeService(out) ==
    IF behaved
    THEN {[status |-> "SUCCESS", out |-> out]}
    ELSE {[status |-> s, out |-> IF s = "SUCCESS" THEN out ELSE [i \in 1 .. Len(out) |-> 0]] :
             s \in Statuses}

\* -------------------------------------------------------------- the handle
\* initialize: what the store leaves in the pointer, given what the load saw
InitializeAlwaysStores(seen, t) == t
InitializeStore(seen, t) == IF seen = Null THEN t ELSE ptr

InitializeResult(seen) == IF seen = Null THEN OkUnit ELSE DebugAssert(AlreadyInitialized, OkUnit)

\* efi_runtime_services(): the bound table, or a panic
ResolvedUnchecked == OkTable(ptr)
Resolved == IF ptr = Null THEN Panic(NotInitialized) ELSE OkTable(ptr)

\* --------------------------------------------------------- GetVariableStatus
SuccessNoAttributes(n, a) ==
    [tag |-> "Success", data_size |-> n, attributes |-> 0, status |-> "SUCCESS"]
Success(n, a) == [tag |-> "Success", data_size |-> n, attributes |-> a, status |-> "SUCCESS"]
BufferTooSmall(n, a) ==
    [tag |-> "BufferTooSmall", data_size |-> n, attributes |-> a, status |-> "BUFFER_TOO_SMALL"]
Error(e) == [tag |-> "Error", data_size |-> 0, attributes |-> 0, status |-> e]
Abort(msg) == [tag |-> "Panic", data_size |-> 0, attributes |-> 0, status |-> msg]

\* the raw status of GetVariable as a GetVariableStatus
GetVariableTranslate(r) ==
    IF r.status = "BUFFER_TOO_SMALL" THEN BufferTooSmall(r.size, r.attrs)
    ELSE IF IsError(r.status) THEN Error(r.status)
    ELSE Success(r.size, r.attrs)

\* get_variable_unchecked(name, namespace, data): some = FALSE is data = None.
\* The outcomes: the status, the buffer afterwards, the platform call made.
GetVariableUnchecked(name, ns, some, buf) ==
    IF ptr = Null
    THEN {[st |-> Abort(NotInitialized), buf |-> buf, call |-> <<>>]}
    ELSE IF ~SlotPopulated(ptr, "get_variable")
    THEN {[st |-> IF debug
                  THEN Abort("GetVariable has not initialized in the Runtime Services Table.")
                  ELSE Error("NOT_FOUND"),
           buf |-> buf, call |-> <<>>]}
    ELSE LET size == IF some THEN Len(buf) ELSE 0 IN
         {[st |-> GetVariableTranslate(r), buf |-> r.buf,
           call |-> <<[fn |-> "GetVariable", name |-> name, ns |-> ns, size |-> size,
                       null |-> ~some, status |-> r.status, rsize |-> r.size,
                       rattrs |-> r.attrs]>>] :
            r \in EfiGetVariable(name, ns, size, buf)}

\* -------------------------------------------------------------------- Init
\* new_uninit() or new(table); no operation in progress; an empty store
Init ==
    /\ debug \in BOOLEAN
    /\ behaved \in BOOLEAN
    /\ ptr \in {Null} \cup Tables
    /\ store = <<>>
    /\ pc = "idle"
    /\ op = IdleOp
    /\ data = <<>>
    /\ first_attempt = TRUE
    /\ next_name = <<>>
    /\ next_namespace = 0
    /\ next_name_size = 0
    /\ first_try = TRUE
    /\ calls = <<>>
    /\ result = NoResult
    /\ walk = <<>>
    /\ ctx = [c \in Contexts |-> [pc |-> "idle", table |-> Null, seen |-> Null, res |-> NoResult]]

\* an operation that ran to its end in one step
Finish(o, r) ==
    /\ pc' = "done"
    /\ op' = o
    /\ result' = r

\* ------------------------------------------------------- initialize, resolve
Initialize(t) ==
    /\ pc = "idle"
    /\ ptr' = InitializeStore(ptr, t)
    /\ Finish([IdleOp EXCEPT !.kind = "initialize", !.table = t], InitializeResult(ptr))
    /\ walk' = <<>>
    /\ UNCHANGED <<platform, store, locals, calls, ctx>>

Resolve ==
    /\ pc = "idle"
    /\ Finish([IdleOp EXCEPT !.kind = "resolve"], Resolved)
    /\ walk' = <<>>
    /\ UNCHANGED <<platform, ptr, store, locals, calls, ctx>>

\* -------------------------------------------------------------- get_variable
\* lines 148-151: the first buffer: empty, or size_hint bytes of FillHint
HintIgnored(hint) == <<>>
HintedBuffer(hint) == IF hint = None THEN <<>> ELSE Resize(<<>>, hint, FillHint)

\* line 164: the buffer is handed over as None when it is empty
AlwaysSome(buf) == TRUE
SomeData(buf) == Len(buf) # 0

\* lines 138-158: the terminator check, the buffer of the size hint
GetVariableStart(name, ns, hint, T) ==
    /\ pc = "idle"
    /\ op' = [IdleOp EXCEPT !.kind = "get_variable", !.name = name, !.ns = ns,
                            !.hint = hint, !.T = T]
    /\ IF ~IsNullTerminated(name)
       THEN /\ pc' = "done"
            /\ result' = DebugAssert("Name passed into get_variable is not null-terminated.",
                                     Err("INVALID_PARAMETER"))
            /\ UNCHANGED <<data, first_attempt>>
       ELSE /\ pc' = "get_variable"
            /\ result' = NoResult
            /\ data' = HintedBuffer(hint)
            /\ first_attempt' = TRUE
    /\ walk' = <<>>
    /\ UNCHANGED <<platform, ptr, store, next_name, next_namespace, next_name_size,
                   first_try, calls, ctx>>

\* line 173: a BufferTooSmall answer is retried on the first attempt only
RetryAlways(first) == TRUE
MayRetry(first) == first

\* line 175: data.resize(data_size, 10)
ResizeForgotten(buf, data_size) == buf
ResizeGrowOnly(buf, data_size) ==
    IF data_size > Len(buf) THEN Resize(buf, data_size, FillRetry) ELSE buf
ResizedData(buf, data_size) == Resize(buf, data_size, FillRetry)

\* lines 168-171: T::try_from(data) decides between Ok((d, attributes)) and
\* Err(INVALID_PARAMETER)
ConvertedUnchecked(T, bytes, attributes) == OkData(bytes, attributes)
Converted(T, bytes, attributes) ==
    IF TryFromOk(T, bytes) THEN OkData(bytes, attributes) ELSE Err("INVALID_PARAMETER")

\* lines 167-183: what one answer of get_variable_unchecked leads to
GetVariableMatch(o) ==
    IF o.st.tag = "Panic"
    THEN [pc |-> "done", result |-> Panic(o.st.status), data |-> o.buf, first |-> first_attempt]
    ELSE IF o.st.tag = "Success"
    THEN [pc |-> "done",
          result |-> Converted(op.T, o.buf, o.st.attributes),
          data |-> o.buf, first |-> first_attempt]
    ELSE IF o.st.tag = "BufferTooSmall"
    THEN IF MayRetry(first_attempt)
         THEN [pc |-> "get_variable", result |-> NoResult,
               data |-> ResizedData(o.buf, o.st.data_size), first |-> FALSE]
         ELSE [pc |-> "done", result |-> Err("BUFFER_TOO_SMALL"), data |-> o.buf,
               first |-> first_attempt]
    ELSE [pc |-> "done", result |-> Err(o.st.status), data |-> o.buf, first |-> first_attempt]

\* lines 159-185: one turn of the loop
GetVariableStep ==
    /\ pc = "get_variable"
    /\ \E o \in GetVariableUnchecked(op.name, op.ns, SomeData(data), data) :
         LET m == GetVariableMatch(o) IN
         /\ pc' = m.pc
         /\ result' = m.result
         /\ data' = m.data
         /\ first_attempt' = m.first
         /\ calls' = calls \o o.call
    /\ UNCHANGED <<platform, ptr, store, op, next_name, next_namespace, next_name_size,
                   first_try, walk, ctx>>

\* ------------------------------------------ get_variable_size_and_attributes
\* lines 203-210
SizeProbeRejected(st) ==
    IF st.tag = "BufferTooSmall" THEN Err("BUFFER_TOO_SMALL")
    ELSE IF st.tag = "Error" THEN Err(st.status)
    ELSE IF st.tag = "Panic" THEN Panic(st.status)
    ELSE OkSize(st.data_size, st.attributes)
SizeAndAttributesMatch(st) ==
    IF st.tag = "BufferTooSmall" THEN OkSize(st.data_size, st.attributes)
    ELSE IF st.tag = "Error" THEN Err(st.status)
    ELSE IF st.tag = "Panic" THEN Panic(st.status)
    ELSE DebugAssert("GetVariable call with zero-sized buffer returned Success.",
                     OkSize(st.data_size, st.attributes))

GetVariableSizeAndAttributes(name, ns) ==
    /\ pc = "idle"
    /\ IF ~IsNullTerminated(name)
       THEN /\ result' = DebugAssert("Name passed into set_variable is not null-terminated.",
                                     Err("INVALID_PARAMETER"))
            /\ calls' = calls
       ELSE \E o \in GetVariableUnchecked(name, ns, FALSE, <<>>) :
            /\ result' = SizeAndAttributesMatch(o.st)
            /\ calls' = calls \o o.call
    /\ pc' = "done"
    /\ op' = [IdleOp EXCEPT !.kind = "get_variable_size_and_attributes", !.name = name,
                            !.ns = ns]
    /\ walk' = <<>>
    /\ UNCHANGED <<platform, ptr, store, locals, ctx>>

\* -------------------------------------------------------------- set_variable
\* lines 450-454 and 567-571: every status that is not an error is Ok
VariableTranslate(status, ok) == IF IsError(status) THEN Err(status) ELSE ok

\* lines 442-454 and 561-571: the platform is called once, whatever it answers
CalledAgainWhenTooSmall(status, c) == IF status = "BUFFER_TOO_SMALL" THEN <<c, c>> ELSE <<c>>
CalledOnce(status, c) == <<c>>

\* lines 429-455: set_variable_unchecked; the (result, store, call) outcomes
SetVariableUnchecked(name, ns, attributes, bytes) ==
    IF ptr = Null
    THEN {[result |-> Panic(NotInitialized), store |-> store, call |-> <<>>]}
    ELSE IF ~SlotPopulated(ptr, "set_variable")
    THEN {[result |-> DebugAssert("SetVariable has not initialized in the Runtime Services Table.",
                                  Err("NOT_FOUND")),
           store |-> store, call |-> <<>>]}
    ELSE {[result |-> VariableTranslate(r.status, OkUnit),
           store |-> r.store,
           call |-> CalledOnce(r.status,
                       [fn |-> "SetVariable", name |-> name, ns |-> ns, size |-> Len(bytes),
                        null |-> FALSE, status |-> r.status, rsize |-> 0,
                        rattrs |-> attributes])] :
            r \in EfiSetVariable(name, ns, attributes, bytes)}

\* lines 102-121
SetVariable(name, ns, attributes, value) ==
    /\ pc = "idle"
    /\ IF ~IsNullTerminated(name)
       THEN /\ result' = DebugAssert("Name passed into set_variable is not null-terminated.",
                                     Err("INVALID_PARAMETER"))
            /\ UNCHANGED <<store, calls>>
       ELSE \E o \in SetVariableUnchecked(name, ns, attributes, value) :
            /\ result' = o.result
            /\ store' = o.store
            /\ calls' = calls \o o.call
    /\ pc' = "done"
    /\ op' = [IdleOp EXCEPT !.kind = "set_variable", !.name = name, !.ns = ns,
                            !.attrs = attributes, !.value = value]
    /\ walk' = <<>>
    /\ UNCHANGED <<platform, ptr, locals, ctx>>

\* -------------------------------------------------------- query_variable_info
\* lines 547-572
QueryVariableInfo(attributes) ==
    /\ pc = "idle"
    /\ IF ptr = Null
       THEN /\ result' = Panic(NotInitialized)
            /\ calls' = calls
       ELSE IF ~SlotPopulated(ptr, "query_variable_info")
       THEN /\ result' = DebugAssert(
                   "QueryVariableInfo has not initialized in the Runtime Services Table.",
                   Err("NOT_FOUND"))
            /\ calls' = calls
       ELSE \E r \in EfiQueryVariableInfo(attributes) :
            /\ result' = VariableTranslate(r.status, OkInfo(r.info))
            /\ calls' = calls \o CalledOnce(r.status,
                             [fn |-> "QueryVariableInfo", name |-> <<>>, ns |-> 0, size |-> 0,
                              null |-> FALSE, status |-> r.status, rsize |-> 0,
                              rattrs |-> attributes])
    /\ pc' = "done"
    /\ op' = [IdleOp EXCEPT !.kind = "query_variable_info", !.attrs = attributes]
    /\ walk' = <<>>
    /\ UNCHANGED <<platform, ptr, store, locals, ctx>>

\* ---------------------------------- get_time, set_time, get/set_wakeup_time
\* lines 385-388, 396-399, 411-414, 423-426: only SUCCESS is Ok
TimeTranslate(status, ok) == IF status = "SUCCESS" THEN ok ELSE Err(status)

\* lines 376-427: the four unchecked functions have one shape: resolve the
\* table, panic on a null slot, call the platform once, translate the status.
\* out is what the platform writes on success (<<>> for the setters); the
\* outcomes are (result, call).
TimeServiceUnchecked(slot, fn, out) ==
    IF ptr = Null
    THEN {[result |-> Panic(NotInitialized), call |-> <<>>]}
    ELSE IF ~SlotPopulated(ptr, slot)
    THEN {[result |-> Panic("function not initialize."), call |-> <<>>]}
    ELSE {[result |-> TimeTranslate(r.status, IF out = <<>> THEN OkUnit ELSE OkInfo(r.out)),
           call |-> <<[fn |-> fn, name |-> <<>>, ns |-> 0, size |-> 0, null |-> FALSE,
                       status |-> r.status, rsize |-> 0, rattrs |-> 0]>>] :
            r \in EfiTimeService(out)}

\* a time or wake-up wrapper, lines 254-307: it only forwards
TimeServiceUnbinding(o, slot, fn, out) ==
    /\ pc = "idle"
    /\ \E u \in TimeServiceUnchecked(slot, fn, out) :
         /\ Finish(o, u.result)
         /\ calls' = calls \o u.call
    /\ walk' = <<>>
    /\ ptr' = Null
    /\ UNCHANGED <<platform, store, locals, ctx>>
TimeService(o, slot, fn, out) ==
    /\ pc = "idle"
    /\ \E u \in TimeServiceUnchecked(slot, fn, out) :
         /\ Finish(o, u.result)
         /\ calls' = calls \o u.call
    /\ walk' = <<>>
    /\ UNCHANGED <<platform, ptr, store, locals, ctx>>

\* lines 254-260 and 376-389: Ok((time, time_capabilities))
GetTime == TimeService([IdleOp EXCEPT !.kind = "get_time"], "get_time", "GetTime", <<1, 1>>)

\* lines 269-276 and 391-400
SetTime == TimeService([IdleOp EXCEPT !.kind = "set_time"], "set_time", "SetTime", <<>>)

\* lines 284-290 and 402-415: Ok((enabled, pending, time))
GetWakeupTime ==
    TimeService([IdleOp EXCEPT !.kind = "get_wakeup_time"], "get_wakeup_time",
                "GetWakeupTime", <<1, 0, 1>>)

\* lines 299-307 and 417-427
SetWakeupTime(enable) ==
    TimeService([IdleOp EXCEPT !.kind = "set_wakeup_time", !.enable = enable],
                "set_wakeup_time", "SetWakeupTime", <<>>)

\* ---------------------------------------------------- get_next_variable_name
\* lines 227-230: the zero-length check
NeverZeroLength(prev_name) == FALSE
IsZeroLength(prev_name) == Len(prev_name) = 0

\* line 525: a BUFFER_TOO_SMALL answer is retried on the first try only
RetryNextAlways(first) == TRUE
MayRetryNext(first) == first

\* lines 509-512: next_name grown to prev_name's length and seeded with it
SeededNameNotCopied(buf, prev_name) ==
    IF Len(buf) < Len(prev_name) THEN Resize(buf, Len(prev_name), 0) ELSE buf
SeededName(buf, prev_name) ==
    CopyPrefix(IF Len(buf) < Len(prev_name) THEN Resize(buf, Len(prev_name), 0) ELSE buf,
               prev_name)

\* lines 227-233 and 502-520: the zero-length check, the scratch name and
\* namespace, the slot check, the seeding. w is the walk the call continues.
GetNextVariableNameBegin(prev_name, prev_namespace, w) ==
    /\ pc = "idle"
    /\ op' = [IdleOp EXCEPT !.kind = "get_next_variable_name", !.name = prev_name,
                            !.ns = prev_namespace]
    /\ walk' = w
    /\ IF IsZeroLength(prev_name)
       THEN /\ pc' = "done"
            /\ result' = DebugAssert("Zero-length name passed into get_next_variable_name.",
                                     Err("INVALID_PARAMETER"))
            /\ UNCHANGED <<next_name, next_namespace, next_name_size, first_try>>
       ELSE IF ptr = Null
       THEN /\ pc' = "done"
            /\ result' = Panic(NotInitialized)
            /\ UNCHANGED <<next_name, next_namespace, next_name_size, first_try>>
       ELSE IF ~SlotPopulated(ptr, "get_next_variable_name")
       THEN /\ pc' = "done"
            /\ result' = DebugAssert(
                   "GetNextVariableName has not initialized in the Runtime Services Table.",
                   Err("NOT_FOUND"))
            /\ UNCHANGED <<next_name, next_namespace, next_name_size, first_try>>
       ELSE /\ pc' = "get_next"
            /\ result' = NoResult
            /\ next_name' = SeededName(<<>>, prev_name)
            /\ next_namespace' = prev_namespace
            /\ next_name_size' = Len(prev_name)
            /\ first_try' = TRUE
    /\ UNCHANGED <<platform, ptr, store, data, first_attempt, calls, ctx>>

GetNextVariableNameStart(prev_name, prev_namespace) ==
    GetNextVariableNameBegin(prev_name, prev_namespace, <<>>)

\* the caller's loop: the name and namespace returned last are passed back in
WalkNext ==
    /\ walk # <<>>
    /\ Len(walk) < MaxWalk
    /\ walk[Len(walk)].tag = "Ok"
    /\ GetNextVariableNameBegin(walk[Len(walk)].name, walk[Len(walk)].ns, walk)

\* lines 528-531: the size reported with BUFFER_TOO_SMALL must exceed the buffer
SizeUnchecked(size, buf) == TRUE
SizeGrows(size, buf) == size > Len(buf)

\* lines 534-537: next_name resized to the reported size and seeded again
ResizedOnly(buf, size, prev_name) == Resize(buf, size, 0)
Reseeded(buf, size, prev_name) == CopyPrefix(Resize(buf, size, 0), prev_name)

\* lines 525-543: what one answer of the platform leads to
GetNextMatch(r) ==
    IF r.status = "BUFFER_TOO_SMALL" /\ MayRetryNext(first_try)
    THEN IF ~SizeGrows(r.size, r.name)
         THEN [pc |-> "done",
               result |-> Panic("get_next_variable_name requested smaller buffer on BUFFER_TOO_SMALL."),
               name |-> r.name, ns |-> r.ns]
         ELSE [pc |-> "get_next", result |-> NoResult,
               name |-> Reseeded(r.name, r.size, op.name), ns |-> op.ns]
    ELSE IF IsError(r.status)
    THEN [pc |-> "done", result |-> Err(r.status), name |-> r.name, ns |-> r.ns]
    ELSE [pc |-> "done", result |-> OkName(r.name, r.ns), name |-> r.name, ns |-> r.ns]

\* lines 521-544: one turn of the loop
GetNextVariableNameStep ==
    /\ pc = "get_next"
    /\ \E r \in EfiGetNextVariableName(next_name_size, next_name, next_namespace) :
         LET m == GetNextMatch(r) IN
         /\ pc' = m.pc
         /\ result' = m.result
         /\ next_name' = m.name
         /\ next_namespace' = m.ns
         /\ next_name_size' = r.size
         /\ first_try' = (first_try /\ r.status # "BUFFER_TOO_SMALL")
         /\ calls' = Append(calls, [fn |-> "GetNextVariableName", name |-> next_name,
                                    ns |-> next_namespace, size |-> next_name_size,
                                    null |-> FALSE, status |-> r.status, rsize |-> r.size,
                                    rattrs |-> 0])
    /\ UNCHANGED <<platform, ptr, store, op, data, first_attempt, walk, ctx>>

\* the operation has returned: its scratch state is dropped
Return ==
    /\ pc = "done"
    /\ pc' = "idle"
    /\ op' = IdleOp
    /\ result' = NoResult
    /\ calls' = <<>>
    /\ data' = <<>>
    /\ first_attempt' = TRUE
    /\ next_name' = <<>>
    /\ next_namespace' = 0
    /\ next_name_size' = 0
    /\ first_try' = TRUE
    /\ walk' = IF op.kind = "get_next_variable_name" /\ (walk # <<>> \/ op.name = <<0>>)
               THEN Append(walk, result)
               ELSE <<>>
    /\ UNCHANGED <<platform, ptr, store, ctx>>

Next ==
    \/ \E t \in Tables : Initialize(t)
    \/ Resolve
    \/ \E id \in Idents, hint \in Hints, T \in Types :
         GetVariableStart(id.name, id.ns, hint, T)
    \/ GetVariableStep
    \/ \E id \in Idents : GetVariableSizeAndAttributes(id.name, id.ns)
    \/ \E id \in Idents, w \in Writes : SetVariable(id.name, id.ns, w.attrs, w.value)
    \/ \E id \in Idents : GetNextVariableNameStart(id.name, id.ns)
    \/ WalkNext
    \/ GetNextVariableNameStep
    \/ \E attributes \in QueryAttrs : QueryVariableInfo(attributes)
    \/ GetTime
    \/ SetTime
    \/ GetWakeupTime
    \/ \E enable \in BOOLEAN : SetWakeupTime(enable)
    \/ Return

Spec == Init /\ [][Next]_vars

\* --------------------------------------- initialize from two contexts at once
\* line 68: the load of initialize
RaceLoad(c, t) ==
    /\ ctx[c].pc = "idle"
    /\ ctx' = [ctx EXCEPT ![c] = [pc |-> "loaded", table |-> t, seen |-> ptr,
                                  res |-> NoResult]]
    /\ UNCHANGED <<platform, ptr, store, pc, op, locals, calls, result, walk>>

\* lines 68-73: the branch on what was loaded, and the store
RaceStore(c) ==
    /\ ctx[c].pc = "loaded"
    /\ ptr' = InitializeStore(ctx[c].seen, ctx[c].table)
    /\ ctx' = [ctx EXCEPT ![c].pc = "idle", ![c].res = InitializeResult(ctx[c].seen)]
    /\ UNCHANGED <<platform, store, pc, op, locals, calls, result, walk>>

\* lines 78-86 from context c
RaceResolve(c) ==
    /\ ctx[c].pc = "idle"
    /\ ctx' = [ctx EXCEPT ![c].res = Resolved]
    /\ UNCHANGED <<platform, ptr, store, pc, op, locals, calls, result, walk>>

NextRace ==
    \/ \E c \in Contexts, t \in Tables : RaceLoad(c, t)
    \/ \E c \in Contexts : RaceStore(c)
    \/ \E c \in Contexts : RaceResolve(c)

SpecRace == Init /\ [][NextRace]_vars

\* ===================================================================== claims
GetVariableDone == pc = "done" /\ op.kind = "get_variable"
TooSmall(c) == c.status = "BUFFER_TOO_SMALL"
\* the stored record the operation in progress names, 0 when there is none
Rec == Lookup(op.name, op.ns)

\* C1: get_variable never makes a third GetVariable call; when the platform
\* answers BUFFER_TOO_SMALL to every call, whatever sizes it reports,
\* get_variable makes exactly two calls and returns Err(BUFFER_TOO_SMALL),
\* for every size hint.
C1_TwoCallsThenTooSmall ==
    op.kind = "get_variable" =>
        /\ Len(calls) <= 2
        /\ (pc = "done" /\ calls # <<>> /\ \A k \in 1 .. Len(calls) : TooSmall(calls[k])) =>
               (Len(calls) = 2 /\ result = Err("BUFFER_TOO_SMALL"))

\* the platform reported a larger size the second time, and the operation gave up
C1_Witness ==
    /\ GetVariableDone /\ Len(calls) = 2
    /\ TooSmall(calls[1]) /\ TooSmall(calls[2])
    /\ calls[2].rsize > calls[1].rsize
    /\ op.hint = 1
    /\ result = Err("BUFFER_TOO_SMALL")

\* C2: for a stored variable of size S > 0 on a well-behaved platform,
\* get_variable with no hint or a hint below S makes exactly two GetVariable
\* calls: the first answers BUFFER_TOO_SMALL reporting S, the second, made
\* with S bytes, succeeds, and the result carries the stored bytes and the
\* stored attributes (Err(INVALID_PARAMETER) when the caller's type does not
\* take S bytes).
C2_LowHintRetries ==
    (/\ GetVariableDone /\ behaved /\ ptr = FullTable /\ HasNul(op.name)
     /\ Rec # 0
     /\ Len(store[Rec].data) > 0
     /\ (op.hint = None \/ op.hint < Len(store[Rec].data))) =>
        /\ Len(calls) = 2
        /\ TooSmall(calls[1]) /\ calls[1].rsize = Len(store[Rec].data)
        /\ calls[2].status = "SUCCESS" /\ calls[2].size = Len(store[Rec].data)
        /\ result = IF TryFromOk(op.T, store[Rec].data)
                    THEN OkData(store[Rec].data, store[Rec].attrs)
                    ELSE Err("INVALID_PARAMETER")

\* a hint of one byte for a stored value of two bytes, read after a retry
C2_Witness ==
    /\ GetVariableDone /\ behaved /\ Rec # 0
    /\ op.hint = 1 /\ Len(store[Rec].data) = 2
    /\ Len(calls) = 2
    /\ result = OkData(store[Rec].data, store[Rec].attrs)

\* C3: after set_variable(name, namespace, attributes, v) succeeded on a
\* platform that stores what it is given, get_variable(name, namespace, hint)
\* returns the attributes written and bytes equal to v, for every size hint
\* (stated here for the values v of at least one byte and T = Vec<u8>).
C3_RoundTrip ==
    (GetVariableDone /\ behaved /\ ptr = FullTable /\ HasNul(op.name) /\ Rec # 0
     /\ Len(store[Rec].data) > 0 /\ op.T = "Vec") =>
        result = OkData(store[Rec].data, store[Rec].attrs)

\* C4: with initialize called from two contexts at once, the pointer, once
\* it holds a table, is never overwritten by the other initializer.
C4_NeverOverwritten == [][ptr # Null => ptr' = ptr]_vars

\* C5: in a single-threaded run only the first binding takes effect: a later
\* initialize is rejected (it asserts in a debug build), the pointer keeps the
\* table bound first and never returns to null, and resolve returns that table.
C5_FirstBindingStays ==
    [][ptr # Null =>
         /\ ptr' = ptr
         /\ (pc = "idle" /\ op'.kind = "initialize") =>
                result' = IF debug THEN Panic(AlreadyInitialized) ELSE OkUnit
         /\ (pc = "idle" /\ op'.kind = "resolve") => result' = OkTable(ptr)]_vars

\* initialize was called with another table than the one bound
C5_Witness ==
    /\ pc = "done" /\ op.kind = "initialize"
    /\ ptr # Null /\ op.table # ptr

CheckedOps == {"get_variable", "set_variable", "get_variable_size_and_attributes"}
NoZeroUnit(name) == \A i \in 1 .. Len(name) : name[i] # 0

\* C6: get_variable, set_variable and get_variable_size_and_attributes called
\* with a name that holds no zero code unit make no platform call and end with
\* Err(INVALID_PARAMETER) (an assertion failure in a debug build).
C6_UnterminatedRejected ==
    (op.kind \in CheckedOps /\ NoZeroUnit(op.name)) =>
        /\ calls = <<>>
        /\ pc = "done"
        /\ result = IF debug THEN Panic(result.status) ELSE Err("INVALID_PARAMETER")

\* a release build, a bound table with populated slots, an unterminated name
C6_Witness ==
    /\ pc = "done" /\ op.kind = "set_variable" /\ ~debug /\ ptr = FullTable
    /\ op.name = <<1, 1>>
    /\ result = Err("INVALID_PARAMETER")

\* C7: walking a list of two entries from the empty name [0], feeding each
\* returned (name, namespace) back in, yields the first entry, then the second
\* entry, then Err(NOT_FOUND); no third entry is returned.
C7_WalkTwoEntries ==
    (behaved /\ ptr = FullTable /\ Len(store) = 2) =>
        /\ Len(walk) <= 3
        /\ Len(walk) >= 1 => walk[1] = OkName(store[1].name, store[1].ns)
        /\ Len(walk) >= 2 => walk[2] = OkName(store[2].name, store[2].ns)
        /\ Len(walk) >= 3 => walk[3] = Err("NOT_FOUND")

\* the index in the store of the successor of the name passed in
Successor == IF CStr(op.name) = <<0>> THEN 1 ELSE Rec + 1

\* C8: whenever get_next_variable_name succeeds, the returned name is exactly
\* the successor name the platform supplied, and the returned namespace the
\* successor's, whether that name is longer than, as long as or shorter than
\* the name passed in.
C8_ExactSuccessor ==
    (pc = "done" /\ op.kind = "get_next_variable_name" /\ behaved /\ result.tag = "Ok") =>
        result = OkName(store[Successor].name, store[Successor].ns)

SizeProbeDone == pc = "done" /\ op.kind = "get_variable_size_and_attributes"

\* C9 as stated: for an existing record of size S,
\* get_variable_size_and_attributes returns (S, stored attributes) after one
\* GetVariable call made with a null pointer and size 0.
C9_SizeOfAnyRecord ==
    (SizeProbeDone /\ behaved /\ ptr = FullTable /\ HasNul(op.name) /\ Rec # 0) =>
        /\ Len(calls) = 1 /\ calls[1].null /\ calls[1].size = 0
        /\ result = OkSize(Len(store[Rec].data), store[Rec].attrs)

\* C9, amended: for an existing record of size S > 0,
\* get_variable_size_and_attributes returns (S, stored attributes) after
\* exactly one GetVariable call made with a null pointer and size 0.
C9_SizeOfNonEmptyRecord ==
    (SizeProbeDone /\ behaved /\ ptr = FullTable /\ HasNul(op.name) /\ Rec # 0
     /\ Len(store[Rec].data) > 0) =>
        /\ Len(calls) = 1 /\ calls[1].null /\ calls[1].size = 0
        /\ calls[1].fn = "GetVariable"
        /\ result = OkSize(Len(store[Rec].data), store[Rec].attrs)

\* the size and the attributes of a record of two bytes
C9_Witness ==
    /\ SizeProbeDone /\ behaved /\ Rec # 0
    /\ Len(store[Rec].data) = 2
    /\ result = OkSize(2, store[Rec].attrs)

\* C10: when the platform answers the zero-length probe of
\* get_variable_size_and_attributes with Success, the operation does not
\* report a successful (size, attributes) result, in any build.
C10_SpuriousSuccessRejected ==
    (SizeProbeDone /\ Len(calls) = 1 /\ calls[1].status = "SUCCESS") => result.tag # "Ok"

\* the operations that reach a slot of the table, and whether the operation in
\* progress got past the wrapper's own check of its name
VariableOps == {"get_variable", "set_variable", "get_next_variable_name",
                "query_variable_info"}
TimeOps == {"get_time", "set_time", "get_wakeup_time", "set_wakeup_time"}
ServiceOps == VariableOps \cup TimeOps \cup {"get_variable_size_and_attributes"}
NameAccepted ==
    /\ op.kind \in CheckedOps => ~NoZeroUnit(op.name)
    /\ op.kind = "get_next_variable_name" => Len(op.name) > 0
LastCall == calls[Len(calls)]

\* C11: for each of the eight service slots, the wrapper called on a bound
\* table whose slot is null ends in a fatal uninitialized-service condition in
\* every build: no platform call is made and no ordinary status is returned.
C11_NullSlotIsFatal ==
    (pc = "done" /\ op.kind \in VariableOps \cup TimeOps /\ ptr = ZeroTable /\ NameAccepted) =>
        /\ calls = <<>>
        /\ result.tag = "Panic"

\* C12: for get_variable, set_variable, get_next_variable_name and
\* query_variable_info, a platform status that is neither SUCCESS nor
\* BUFFER_TOO_SMALL, error or warning alike, ends the operation at that call
\* with Err of the same status.
C12_OtherStatusPassedThrough ==
    (op.kind \in VariableOps /\ calls # <<>>
       /\ LastCall.status \notin {"SUCCESS", "BUFFER_TOO_SMALL"}) =>
        /\ pc = "done"
        /\ result = Err(LastCall.status)

\* C13: nothing but an unbound handle, a null slot or a double bind makes an
\* operation abort: get_next_variable_name on a bound, populated table with a
\* non-empty name returns a Result whatever status and size the platform reports.
C13_EnumerationNeverPanics ==
    (op.kind = "get_next_variable_name" /\ ptr = FullTable /\ Len(op.name) > 0) =>
        result.tag # "Panic"

\* C14: in a release build, initialize on a handle that is already bound
\* returns a distinct invalid-usage error to its caller.
C14_RebindIsAnError ==
    [][(pc = "idle" /\ op'.kind = "initialize" /\ ptr # Null /\ ~debug) =>
          result'.tag = "Err"]_vars

\* C15: when the platform call of get_variable succeeds but the bytes do not
\* convert into the caller's type T, get_variable ends at that call with
\* Err(INVALID_PARAMETER).
C15_ConversionFailure ==
    (op.kind = "get_variable" /\ calls # <<>> /\ LastCall.status = "SUCCESS"
       /\ op.T = "Array" /\ Len(data) # ArrayLen) =>
        /\ pc = "done"
        /\ result = Err("INVALID_PARAMETER")

\* a one-byte record read into [u8; ArrayLen] from a well-behaved platform
C15_Witness ==
    /\ GetVariableDone /\ behaved /\ op.T = "Array"
    /\ calls # <<>> /\ LastCall.status = "SUCCESS"
    /\ Len(data) = 1 /\ ArrayLen # 1
    /\ result = Err("INVALID_PARAMETER")

\* C16: get_next_variable_name with a non-empty previous name that holds no
\* zero code unit is not rejected by the wrapper: the name is handed to the
\* platform in exactly one GetNextVariableName call, and the platform's
\* INVALID_PARAMETER is what the caller gets.
C16_UnterminatedPassedOn ==
    (op.kind = "get_next_variable_name" /\ behaved /\ ptr = FullTable
       /\ Len(op.name) > 0 /\ NoZeroUnit(op.name)) =>
        IF pc = "done"
        THEN /\ Len(calls) = 1
             /\ calls[1].name = op.name
             /\ calls[1].size = Len(op.name)
             /\ calls[1].status = "INVALID_PARAMETER"
             /\ result = Err("INVALID_PARAMETER")
        ELSE /\ calls = <<>>
             /\ next_name = op.name

\* the platform has rejected the unterminated name <<1, 1>>
C16_Witness ==
    /\ pc = "done" /\ op.kind = "get_next_variable_name" /\ behaved /\ ptr = FullTable
    /\ op.name = <<1, 1>> /\ Len(calls) = 1

\* C17: get_next_variable_name with a zero-length previous name makes no
\* platform call and ends with Err(INVALID_PARAMETER) (an assertion failure in
\* a debug build).
C17_ZeroLengthRejected ==
    (op.kind = "get_next_variable_name" /\ Len(op.name) = 0) =>
        /\ calls = <<>>
        /\ pc = "done"
        /\ result = IF debug
                    THEN Panic("Zero-length name passed into get_next_variable_name.")
                    ELSE Err("INVALID_PARAMETER")

\* a release build, a bound table with populated slots, the empty name
C17_Witness ==
    /\ pc = "done" /\ op.kind = "get_next_variable_name" /\ ~debug /\ ptr = FullTable
    /\ op.name = <<>> /\ result = Err("INVALID_PARAMETER")

\* C18 as stated: every service operation, and resolve, on a handle that was
\* never bound ends with the panic 'Runtime services is not initialized.'
\* and makes no platform call.
C18_UnboundAlwaysNotInitialized ==
    (ptr = Null /\ pc = "done" /\ op.kind \in ServiceOps \cup {"resolve"}) =>
        /\ calls = <<>>
        /\ result = Panic(NotInitialized)

\* C18: on a handle that was never bound no platform call is ever made, and
\* resolve and every service operation whose name passed the wrapper's own
\* check end with the panic 'Runtime services is not initialized.'.
C18_UnboundAcceptedCall ==
    ptr = Null =>
        /\ calls = <<>>
        /\ (pc = "done" /\ op.kind \in ServiceOps \cup {"resolve"} /\ NameAccepted) =>
               result = Panic(NotInitialized)

\* get_variable with a terminated name on an unbound handle has panicked
C18_Witness ==
    /\ ptr = Null /\ GetVariableDone /\ op.name = <<1, 0>>
    /\ result = Panic(NotInitialized)

RetriedOps == {"get_variable", "get_next_variable_name"}

\* C19: get_variable and get_next_variable_name make at most two platform
\* calls and have returned once the second is made; every other operation
\* makes at most one call and returns with it.
C19_BoundedCalls ==
    /\ Len(calls) <= IF op.kind \in RetriedOps THEN 2 ELSE 1
    /\ Len(calls) = 2 => pc = "done"
    /\ op.kind \notin RetriedOps \cup {"none"} => pc = "done"

\* get_next_variable_name was answered BUFFER_TOO_SMALL twice
C19_Witness ==
    /\ pc = "done" /\ op.kind = "get_next_variable_name"
    /\ Len(calls) = 2 /\ TooSmall(calls[1]) /\ TooSmall(calls[2])

\* C20: on a bound table with populated slots, set_variable with a
\* terminated name and query_variable_info make exactly one platform call
\* whatever status it returns; BUFFER_TOO_SMALL is returned, not retried.
C20_SingleCall ==
    (pc = "done" /\ ptr = FullTable
       /\ \/ op.kind = "set_variable" /\ ~NoZeroUnit(op.name)
          \/ op.kind = "query_variable_info") =>
        /\ Len(calls) = 1
        /\ TooSmall(calls[1]) => result = Err("BUFFER_TOO_SMALL")

\* query_variable_info was answered BUFFER_TOO_SMALL
C20_Witness ==
    /\ pc = "done" /\ op.kind = "query_variable_info" /\ ptr = FullTable
    /\ Len(calls) = 1 /\ TooSmall(calls[1]) /\ result = Err("BUFFER_TOO_SMALL")

GetNextOp == op.kind = "get_next_variable_name"
\* the buffer starts with the previous name of the operation in progress
SeededWith(buf) == Len(buf) >= Len(op.name) /\ SubSeq(buf, 1, Len(op.name)) = op.name

\* C21: at every GetNextVariableName call of get_next_variable_name, the
\* first and the retry, the scratch name starts with prev_name and the scratch
\* namespace is prev_namespace, also after the platform wrote over both.
C21_SeededAtEveryCall ==
    GetNextOp =>
        /\ \A i \in 1 .. Len(calls) : SeededWith(calls[i].name) /\ calls[i].ns = op.ns
        /\ pc = "get_next" => SeededWith(next_name) /\ next_namespace = op.ns

\* the retry of an enumeration from <<1, 0>> on a platform that may have
\* overwritten the scratch name with ones
C21_Witness ==
    /\ GetNextOp /\ ~behaved /\ op.name = <<1, 0>>
    /\ Len(calls) = 2 /\ calls[2].name[2] = 0 /\ calls[2].ns = op.ns

\* C22: when the platform answers BUFFER_TOO_SMALL to the first call and to
\* the retry of get_next_variable_name, the operation returns
\* Err(BUFFER_TOO_SMALL) with exactly two calls made and the buffer as it was
\* at the second call.
C22_TwiceTooSmall ==
    (GetNextOp /\ Len(calls) >= 2 /\ TooSmall(calls[1]) /\ TooSmall(calls[2])) =>
        /\ pc = "done"
        /\ Len(calls) = 2
        /\ result = Err("BUFFER_TOO_SMALL")
        /\ Len(next_name) = calls[2].size

\* the second answer asks for a still larger buffer
C22_Witness ==
    /\ GetNextOp /\ pc = "done" /\ Len(calls) = 2
    /\ TooSmall(calls[1]) /\ TooSmall(calls[2]) /\ calls[2].rsize > calls[2].size
    /\ result = Err("BUFFER_TOO_SMALL")

\* C23: when get_variable succeeds on a well-behaved platform, the bytes
\* handed to the conversion are exactly as long as the data_size reported on
\* the successful call, also when the size hint was larger than the value.
C23_TruncatedToDataSize ==
    (GetVariableDone /\ behaved /\ calls # <<>> /\ LastCall.status = "SUCCESS") =>
        Len(data) = LastCall.rsize

\* C24: when the first GetVariable call of get_variable answers
\* BUFFER_TOO_SMALL with required size R, the buffer becomes exactly R long,
\* larger or smaller than before, and the second call passes that size with
\* the name and namespace of the first call.
C24_RetryWithReportedSize ==
    (op.kind = "get_variable" /\ calls # <<>> /\ TooSmall(calls[1])) =>
        /\ (pc = "get_variable" /\ Len(calls) = 1) => Len(data) = calls[1].rsize
        /\ Len(calls) = 2 =>
               /\ calls[2].size = calls[1].rsize
               /\ calls[2].name = calls[1].name
               /\ calls[2].ns = calls[1].ns

\* the required size reported was smaller than the first buffer
C24_Witness ==
    /\ op.kind = "get_variable" /\ Len(calls) = 2 /\ TooSmall(calls[1])
    /\ calls[1].rsize < calls[1].size /\ calls[1].rsize > 0

\* C25: with a size hint at least the size of the stored value, get_variable
\* on a well-behaved platform makes exactly one GetVariable call, which
\* succeeds, and returns Ok when the bytes convert; a second call is only ever
\* made after BUFFER_TOO_SMALL.
C25_SufficientHint ==
    /\ (GetVariableDone /\ behaved /\ ptr = FullTable /\ Rec # 0 /\ op.hint # None
          /\ op.hint >= Len(store[Rec].data)) =>
           /\ Len(calls) = 1
           /\ calls[1].status = "SUCCESS"
           /\ TryFromOk(op.T, data) => result.tag = "Ok"
    /\ (op.kind = "get_variable" /\ Len(calls) > 1) => calls[1].status = "BUFFER_TOO_SMALL"

\* a two-byte value read with a hint of two
C25_Witness ==
    /\ GetVariableDone /\ behaved /\ Rec # 0 /\ op.hint = 2
    /\ Len(store[Rec].data) = 2 /\ Len(calls) = 1 /\ result.tag = "Ok"

\* C26: each time and wake-up wrapper makes exactly one platform call and
\* returns Ok for exactly the raw statuses for which set_variable and
\* query_variable_info return Ok.
C26_SameTranslation ==
    (pc = "done" /\ op.kind \in TimeOps /\ ptr = FullTable) =>
        /\ Len(calls) = 1
        /\ result.tag = "Ok" <=> VariableTranslate(calls[1].status, OkUnit).tag = "Ok"

\* C27: no step of a service operation changes the table reference of the
\* handle, whatever the platform answers: only initialize writes it.
C27_ReferenceOnlyRead ==
    [][op'.kind # "initialize" => ptr' = ptr]_vars

\* set_time has returned the platform's error on a bound handle
C27_Witness ==
    /\ pc = "done" /\ op.kind = "set_time" /\ ptr = FullTable
    /\ Len(calls) = 1 /\ result = Err("NOT_FOUND")

\* C28: during get_next_variable_name the scratch name is never shorter than
\* prev_name where prev_name is copied into it, and it never shrinks: a retry
\* is made only with a buffer strictly longer than the one of the first call.
C28_BufferNeverShrinks ==
    (GetNextOp /\ (pc = "get_next" \/ calls # <<>>)) =>
        /\ Len(next_name) >= Len(op.name)
        /\ \A i \in 1 .. Len(calls) : Len(calls[i].name) >= Len(op.name)
        /\ Len(calls) = 2 => Len(calls[2].name) > Len(calls[1].name)
        /\ calls # <<>> => Len(next_name) >= Len(LastCall.name)

\* the retry was made with a buffer one unit longer than prev_name, seeded again
C28_Witness ==
    /\ GetNextOp /\ Len(calls) = 2
    /\ Len(calls[1].name) = Len(op.name) /\ Len(calls[2].name) = Len(op.name) + 1
    /\ SeededWith(calls[2].name)

\* C29: every GetVariable call of get_variable passes the length of the
\* current buffer as the size and a null data pointer exactly when that
\* length is 0; a hint of Some(0) starts from the same empty buffer as no hint.
C29_SizeIsBufferLength ==
    [][/\ (pc = "get_variable" /\ calls' # calls) =>
             /\ calls'[Len(calls')].size = Len(data)
             /\ calls'[Len(calls')].null <=> Len(data) = 0
       /\ (pc = "idle" /\ pc' = "get_variable" /\ op'.hint \in {None, 0}) => data' = <<>>]_vars

\* hint Some(0), a first answer BUFFER_TOO_SMALL with required size 0, and a
\* retry without a buffer
C29_Witness ==
    /\ GetVariableDone /\ op.hint = 0 /\ Len(calls) = 2
    /\ calls[1].null /\ TooSmall(calls[1]) /\ calls[1].rsize = 0
    /\ calls[2].null /\ calls[2].size = 0

\* C30: the attributes of a successful get_variable are the ones reported on
\* the call that succeeded, not the ones reported with BUFFER_TOO_SMALL before.
C30_AttributesOfSuccess ==
    (GetVariableDone /\ result.tag = "Ok") => result.attrs = LastCall.rattrs

\* the two calls reported different attributes
C30_Witness ==
    /\ GetVariableDone /\ result.tag = "Ok" /\ Len(calls) = 2
    /\ calls[1].rattrs # calls[2].rattrs /\ result.attrs = calls[2].rattrs
====
